---- MODULE Spec2Model ----
(***************************************************************************)
(* HL7 v2 over MLLP: the receive loop of Machines/mllp_server.py and the   *)
(* MLLPClient of Machines/hl7_common.py.                                   *)
(*                                                                         *)
(* Bytes are integers 0..255, texts (Python str) are sequences of Unicode  *)
(* code points, byte strings (Python bytes) are sequences of bytes.        *)
(* Python indices are 0-based; Slice/SliceFrom translate them.             *)
(***************************************************************************)
EXTENDS Integers, Sequences, FiniteSets, TLC

\* ------------------------------------------------------------------ bounds
MaxTextLen == 1
MaxFrames == 2
MaxRaw == 4
MaxConns == 2
MaxClients == 2
MaxSends == 3
MaxCtrlLen == 3
ReadsTracked == 3
MaxClock == 2
MaxIds == 3
MaxObx == 2
MaxDeviceLen == 3

\* --------------------------------------------------------------- constants
START_BLOCK     == 11
END_BLOCK       == 28
CARRIAGE_RETURN == 13
SB == 11
EB == 28
CR == 13
RECV_SIZE == 1024
ACK_RECV_SIZE == 4096
FIELD_SEP == 124
COMP_SEP == 94

\* -------------------------------------------------------- sequence helpers
Min(a, b) == IF a < b THEN a ELSE b

\* Python  s[lo:hi]  (0-based, hi exclusive, empty when hi <= lo)
Slice(s, lo, hi) ==
    LET h == Min(hi, Len(s))
    IN  IF h <= lo THEN << >> ELSE [i \in 1..(h - lo) |-> s[lo + i]]

\* Python  s[lo:]
SliceFrom(s, lo) == Slice(s, lo, Len(s))

\* Python  b in s
Contains(s, b) == \E i \in 1..Len(s) : s[i] = b

\* Python  s.index(b)  (0-based position of the first b; only used when b in s)
Index(s, b) == (CHOOSE i \in 1..Len(s) : s[i] = b /\ \A j \in 1..(i - 1) : s[j] # b) - 1

SeqsUpTo(S, n) == UNION {[1..k -> S] : k \in 0..n}

\* ------------------------------------------------------------------- UTF-8
IsCont(b) == b >= 128 /\ b <= 191

\* str.encode("utf-8") of one code point that is not a surrogate (for a
\* surrogate encode raises: see Encodable)
Utf8EncodeChar(cp) ==
    IF cp < 128 THEN <<cp>>
    ELSE IF cp < 2048 THEN <<192 + (cp \div 64), 128 + (cp % 64)>>
    ELSE IF cp < 65536
         THEN <<224 + (cp \div 4096), 128 + ((cp \div 64) % 64), 128 + (cp % 64)>>
         ELSE <<240 + (cp \div 262144), 128 + ((cp \div 4096) % 64),
                128 + ((cp \div 64) % 64), 128 + (cp % 64)>>

RECURSIVE Utf8Encode(_)
\* str.encode("utf-8"): the encodings of the code points, concatenated
\* (halving keeps the evaluation depth logarithmic in the length)
Utf8Encode(text) ==
    IF text = << >> THEN << >>
    ELSE IF Len(text) = 1 THEN Utf8EncodeChar(text[1])
    ELSE LET h == Len(text) \div 2
         IN  Utf8Encode(SubSeq(text, 1, h)) \o Utf8Encode(SubSeq(text, h + 1, Len(text)))

\* Number of bytes of the well-formed UTF-8 sequence that starts at b[i]
\* (1-based i), 0 when b[i] does not start one.
Utf8SeqLen(b, i) ==
    LET n  == Len(b)
        b1 == b[i]
        c(k) == i + k <= n /\ IsCont(b[i + k])
        r(k, lo, hi) == i + k <= n /\ b[i + k] >= lo /\ b[i + k] <= hi
    IN  IF b1 < 128 THEN 1
        ELSE IF b1 >= 194 /\ b1 <= 223 THEN (IF c(1) THEN 2 ELSE 0)
        ELSE IF b1 = 224 THEN (IF r(1, 160, 191) /\ c(2) THEN 3 ELSE 0)
        ELSE IF b1 = 237 THEN (IF r(1, 128, 159) /\ c(2) THEN 3 ELSE 0)
        ELSE IF b1 >= 225 /\ b1 <= 239 THEN (IF c(1) /\ c(2) THEN 3 ELSE 0)
        ELSE IF b1 = 240 THEN (IF r(1, 144, 191) /\ c(2) /\ c(3) THEN 4 ELSE 0)
        ELSE IF b1 >= 241 /\ b1 <= 243 THEN (IF c(1) /\ c(2) /\ c(3) THEN 4 ELSE 0)
        ELSE IF b1 = 244 THEN (IF r(1, 128, 143) /\ c(2) /\ c(3) THEN 4 ELSE 0)
        ELSE 0

\* Code point of the well-formed sequence of k bytes at b[i]
Utf8CodePoint(b, i, k) ==
    IF k = 1 THEN b[i]
    ELSE IF k = 2 THEN (b[i] - 192) * 64 + (b[i + 1] - 128)
    ELSE IF k = 3 THEN (b[i] - 224) * 4096 + (b[i + 1] - 128) * 64 + (b[i + 2] - 128)
    ELSE (b[i] - 240) * 262144 + (b[i + 1] - 128) * 4096
         + (b[i + 2] - 128) * 64 + (b[i + 3] - 128)

\* What the byte at position i contributes to a decoded text: the code point
\* of the well-formed sequence it starts, nothing when it is a continuation
\* byte or undecodable.
CharAt(b, i) ==
    IF ~IsCont(b[i]) /\ Utf8SeqLen(b, i) > 0
    THEN <<Utf8CodePoint(b, i, Utf8SeqLen(b, i))>>
    ELSE << >>

RECURSIVE CharsIn(_, _, _)
\* the contributions of positions lo..hi, in order
CharsIn(b, lo, hi) ==
    IF lo > hi THEN << >>
    ELSE IF lo = hi THEN CharAt(b, lo)
    ELSE LET mid == (lo + hi) \div 2
         IN  CharsIn(b, lo, mid) \o CharsIn(b, mid + 1, hi)

\* The bytes are well-formed UTF-8: every byte that is not a continuation byte
\* starts a well-formed sequence, and every continuation byte belongs to one.
WellFormed(b) ==
    /\ Len(b) = 0 \/ ~IsCont(b[1])
    /\ \A i \in 1..Len(b) :
          ~IsCont(b[i])
          => LET k == Utf8SeqLen(b, i)
             IN  k > 0 /\ (i + k > Len(b) \/ ~IsCont(b[i + k]))

\* bytes.decode(): ok = FALSE stands for UnicodeDecodeError
Utf8Decode(b) ==
    IF WellFormed(b) THEN [ok |-> TRUE, text |-> CharsIn(b, 1, Len(b))]
    ELSE [ok |-> FALSE, text |-> << >>]

\* bytes.decode("utf-8", errors="ignore"): the bytes that belong to no
\* well-formed sequence are dropped
Utf8DecodeIgnore(b) == CharsIn(b, 1, Len(b))

\* ------------------------------------------------------------- HL7 builder
RECURSIVE Join(_, _)
\* sep.join(parts)
Join(parts, sep) ==
    IF parts = << >> THEN << >>
    ELSE IF Len(parts) = 1 THEN parts[1]
    ELSE parts[1] \o <<sep>> \o Join(Tail(parts), sep)

\* None, as a value no text equals
None == <<-1>>

\* "" if p is None else str(p), for a text or None
StrOrEmpty(p) == IF p = None THEN << >> ELSE p

\* seg(name, *fields):
\* name + "|" + "|".join("" if f is None else str(f) for f in fields) + "\r"
seg(name, fields) ==
    name \o <<FIELD_SEP>>
    \o Join([i \in 1..Len(fields) |-> StrOrEmpty(fields[i])], FIELD_SEP) \o <<13>>

RECURSIVE Dec(_)
\* str(n) of a non-negative int
Dec(n) == IF n < 10 THEN <<48 + n>> ELSE Dec(n \div 10) \o <<48 + (n % 10)>>

\* A value of a snapshot is round(x), an int, written [int |-> n], or
\* round(x, 1), a float, written [tenths |-> 10 * x].  str(value):
StrValue(v) ==
    IF "int" \in DOMAIN v THEN Dec(v.int)
    ELSE Dec(v.tenths \div 10) \o <<46>> \o Dec(v.tenths % 10)

\* HL7Builder() with the constructor's defaults; ctrl_id starts at 1
NewBuilder ==
    [sending_app   |-> <<73, 67, 85, 95, 83, 73, 77>>,   \* "ICU_SIM"
     sending_fac   |-> <<73, 67, 85>>,                   \* "ICU"
     receiving_app |-> <<76, 73, 83>>,                   \* "LIS"
     receiving_fac |-> <<72, 79, 83, 80>>,               \* "HOSP"
     version       |-> <<50, 46, 53>>,                   \* "2.5"
     ctrl_id       |-> 1]

\* the value next_ctrl_id returns: f"MSG{int(time.time())}-{self.ctrl_id}"
CtrlIdText(self, now) == <<77, 83, 71>> \o Dec(now) \o <<45>> \o Dec(self.ctrl_id)

\* the text msh returns (next_ctrl_id's increment of ctrl_id is the caller's step)
msh(self, message_time, now) ==
    seg(<<77, 83, 72>>,
        << <<94, 126, 92, 38>>,
           self.sending_app,
           self.sending_fac,
           self.receiving_app,
           self.receiving_fac,
           message_time,
           << >>,
           <<79, 82, 85, 94, 82, 48, 49, 94, 79, 82, 85, 95, 82, 48, 49>>,
           CtrlIdText(self, now),
           <<80>>,
           self.version >>)

\* comp(*parts)
comp(parts) == Join([i \in 1..Len(parts) |-> StrOrEmpty(parts[i])], COMP_SEP)

\* n copies of ""
Empties(n) == [i \in 1..n |-> << >>]

\* the clock: second t after 2025-01-01 12:00:00 UTC, t < 3600
ClockEpoch == 1735732800
\* int(time.time()) at second t
TimeAt(t) == ClockEpoch + t
\* two decimal digits
Dec2(n) == <<48 + (n \div 10), 48 + (n % 10)>>
\* ts() at second t: strftime("%Y%m%d%H%M%S")
ts(t) == <<50, 48, 50, 53, 48, 49, 48, 49, 49, 50>> (* "2025010112" *) \o Dec2(t \div 60) \o Dec2(t % 60)

\* x or y, for texts and None: x when it is neither None nor ""
OrElse(x, y) == IF x = None \/ x = << >> THEN y ELSE x

\* pid(patient_id, patient_name, sex)
pid(self, patient_id, patient_name, sex) ==
    seg(<<80, 73, 68>> (* "PID" *),
        << <<49>> (* "1" *),
           << >>,
           comp(<<patient_id, << >>, << >>, <<72, 79, 83, 80, 94, 77, 82>>>>),
           << >>,
           patient_name >>
        \o Empties(9)
        \o <<sex>>)

\* the default panel_code of obr
DefaultPanelCode ==
    << <<86, 73, 84, 65, 76, 83>> (* "VITALS" *),
       <<86, 105, 116, 97, 108, 32, 83, 105, 103, 110, 115, 32, 80, 97, 110, 101, 108>> (* "Vital Signs Panel" *),
       <<76>> (* "L" *),
       <<55, 54, 52, 57, 57, 45, 51>> (* "76499-3" *),
       <<86, 105, 116, 97, 108, 32, 115, 105, 103, 110, 115>> (* "Vital signs" *),
       <<76, 78>> (* "LN" *) >>

\* obr(message_time, device_id, panel_code); uuid is the text str(uuid4()) gave
obr(self, message_time, device_id, panel_code, uuid) ==
    seg(<<79, 66, 82>> (* "OBR" *),
        << <<49>> (* "1" *),
           comp(<<uuid, <<73, 67, 85, 95, 83, 73, 77>>>>),
           comp(<<device_id, <<68, 69, 86, 73, 67, 69>>>>),
           comp(panel_code) >>
        \o Empties(9)
        \o <<message_time>>
        \o Empties(5)
        \o << <<70>> (* "F" *) >>)

\* obx_numeric(...); tnow is the second of the call
obx_numeric(self, set_id, loinc_code, text, coding_system, value, units_code, units_text, units_sys, observation_time, sub_id, tnow) ==
    LET obs_id == comp(<<loinc_code, text, coding_system>>)
        units  == comp(<<units_code, units_text, units_sys>>)
    IN  seg(<<79, 66, 88>> (* "OBX" *),
            << Dec(set_id),
               <<78, 77>> (* "NM" *),
               obs_id,
               sub_id,
               StrValue(value),
               units,
               << >>,
               << >>,
               << >>,
               << >>,
               <<70>> (* "F" *),
               << >>,
               OrElse(observation_time, ts(tnow)) >>)

RECURSIVE Concat(_)
\* "".join(segments)
Concat(segs) == IF segs = << >> THEN << >> ELSE Head(segs) \o Concat(Tail(segs))

\* a build_message that puts the order segment before the patient segment
build_message_OrderBeforePatient(self, patient_id, patient_name, device_id, obx_segments, message_time, tnow, tid, uuid) ==
    LET mt == OrElse(message_time, ts(tnow))
    IN  msh(self, mt, TimeAt(tid))
        \o obr(self, mt, device_id, DefaultPanelCode, uuid)
        \o pid(self, patient_id, patient_name, <<85>>)
        \o Concat(obx_segments)

\* build_message(...): tnow is the second at which ts() reads the clock, tid
\* the second at which next_ctrl_id reads it afterwards; the builder's ctrl_id
\* is incremented by the caller's step
build_message(self, patient_id, patient_name, device_id, obx_segments, message_time, tnow, tid, uuid) ==
    LET mt == OrElse(message_time, ts(tnow))
    IN  msh(self, mt, TimeAt(tid))
        \o pid(self, patient_id, patient_name, <<85>> (* "U" *))
        \o obr(self, mt, device_id, DefaultPanelCode, uuid)
        \o Concat(obx_segments)

\* ------------------------------------------------------------ MLLP framing
\* MLLPClient.send:  data = SB + hl7_message.encode("utf-8") + EB + CR
wrap(hl7_message) == <<SB>> \o Utf8Encode(hl7_message) \o <<EB, CR>>

\* "MSH|^~\&|MLLP_SERVER|TEST_FAC|||20250817153000||ACK^A01|"
AckMshPrefix ==
    <<77, 83, 72, 124, 94, 126, 92, 38, 124, 77, 76, 76, 80, 95, 83, 69, 82, 86,
      69, 82, 124, 84, 69, 83, 84, 95, 70, 65, 67, 124, 124, 124, 50, 48, 50, 53,
      48, 56, 49, 55, 49, 53, 51, 48, 48, 48, 124, 124, 65, 67, 75, 94, 65, 48,
      49, 124>>
\* "|P|2.5\r"
AckMshSuffix == <<124, 80, 124, 50, 46, 53, 13>>
\* "MSA|AA|"
AckMsaPrefix == <<77, 83, 65, 124, 65, 65, 124>>

\* build_ack with the MSA control id fixed to "1" instead of the argument
build_ack_FixedMsa(msg_control_id) ==
    <<START_BLOCK>>
    \o Utf8Encode(AckMshPrefix \o msg_control_id \o AckMshSuffix
                  \o AckMsaPrefix \o <<49>> \o <<13>>)
    \o <<END_BLOCK, CARRIAGE_RETURN>>

build_ack(msg_control_id) ==
    <<START_BLOCK>>
    \o Utf8Encode(AckMshPrefix \o msg_control_id \o AckMshSuffix
                  \o AckMsaPrefix \o msg_control_id \o <<13>>)
    \o <<END_BLOCK, CARRIAGE_RETURN>>

\* the literal the receive loop passes to build_ack:  build_ack("1")
LoopAckControlId == <<49>>

\* while START_BLOCK in buffer and END_BLOCK in buffer
LoopCond(buf) == Contains(buf, START_BLOCK) /\ Contains(buf, END_BLOCK)

\* a start taken for the second byte of the buffer, as if every buffer began
\* with START_BLOCK:  start = 1
FrameStart_SecondByte(buf) == 1

\* start = buffer.index(START_BLOCK) + 1
FrameStart(buf) == Index(buf, START_BLOCK) + 1
\* end = buffer.index(END_BLOCK)
FrameEnd(buf) == Index(buf, END_BLOCK)
\* buffer[start:end]
FrameBytes(buf) == Slice(buf, FrameStart(buf), FrameEnd(buf))
\* the advance skipping END_BLOCK only:  buffer[end + 1 :]
Advance_SkipEndOnly(buf) == SliceFrom(buf, FrameEnd(buf) + 1)
\* the advance dropping everything received:  buffer = b""
Advance_DropBuffer(buf) == << >>

\* buffer = buffer[end + 2 :]
Advance(buf) == SliceFrom(buf, FrameEnd(buf) + 2)

\* conn.sendall(build_ack("1")) as the record of the call: the frame and the
\* position of the extracted message it answers
AckCall(nth) == [frame |-> build_ack(LoopAckControlId), nth |-> nth]

\* an acknowledgment written for the first message of a connection only
SendAck_FirstOnly(sent, nth) ==
    IF sent = << >> THEN Append(sent, AckCall(nth)) ELSE sent

\* the sendall calls that have returned once the nth extracted message has
\* been answered
SendAck(sent, nth) == Append(sent, AckCall(nth))

\* ------------------------------------------------------------------- state
ConnIds == 1..MaxConns
Clients == 1..MaxClients

VARIABLES
    spc,        \* server position: "accept", "recv", "loop", "done", "crashed"
    serr,       \* exception that ended the server: "none", "UnicodeDecodeError", "OSError"
    listening,  \* the listening socket s is open (bind/listen done, with-block not left)
    backlog,    \* established connections not yet returned by s.accept()
    sconn,      \* conn: the accepted connection, 0 before accept
    buffer,     \* buffer
    extracted,  \* the hl7_msg values printed so far
    acks,       \* the conn.sendall(build_ack(..)) calls that have returned
    nreads,     \* number of conn.recv calls that returned data (counted up to ReadsTracked)
    c2s,        \* per connection: bytes written by the peer, not yet received
    s2c,        \* per connection: bytes written by the server, not yet received
    cside,      \* per connection: peer's end "none", "open", "closed"
    sside,      \* per connection: server's end "none", "queued", "open", "closed"
    written,    \* per connection: the texts whose frames the peer wrote
    reset,      \* per connection, what the closed peer's kernel has sent: "none"; "reset" after
                \* the end of its stream; "aborted": a reset in place of the end of the stream
    sock,       \* per client: self.sock, the connection held, 0 for None
    keepalive,  \* per client: self.keepalive
    cpc,        \* per client: "idle", or inside send(): "write" after connect(), "recv" after sendall
    outcome,    \* per client: how its last call that did something ended: "new", "connected", "ack", "none", "raised", "encode_error", "closed"
    ret,        \* per client: the text the last send() returned, << >> for None
    sends,      \* number of send() calls started, over all clients
    connects,   \* per client: connections created by connect() since __init__ or the last close() of a socket
    returned,   \* per client: send() calls that returned since then, -1 once one raised
    pfun,       \* the function or method last called on its own, "none" before
    parg,       \* its argument(s)
    pout,       \* its result
    bld,        \* the HL7Builder instance
    clk,        \* the clock, in seconds after ClockEpoch
    ids,        \* the values next_ctrl_id has returned
    obxs        \* the caller's list of observation segments built so far

vars == <<spc, serr, listening, backlog, sconn, buffer, extracted, acks, nreads,
          c2s, s2c, cside, sside, written, reset, sock, keepalive, cpc, outcome,
          ret, sends, connects, returned, pfun, parg, pout,
          bld, clk, ids, obxs>>

serverVars == <<spc, serr, listening, backlog, sconn, buffer, extracted, acks, nreads>>
netVars == <<c2s, s2c, cside, sside, written, reset>>
builderVars == <<bld, clk, ids, obxs>>
pureVars == <<pfun, parg, pout, bld, clk, ids, obxs>>
clientVars == <<sock, keepalive, cpc, outcome, ret, sends, connects, returned>>

\* ------------------------------------------------------------------ server
\* The process ends (normally or by an exception): every socket it holds is
\* closed, connections still in the backlog are dropped.
ServerEnds(how, exc) ==
    /\ spc' = how
    /\ serr' = exc
    /\ listening' = FALSE
    /\ backlog' = << >>
    /\ sside' = [k \in ConnIds |->
                    IF sside[k] \in {"queued", "open"} THEN "closed" ELSE sside[k]]

\* conn, addr = s.accept()
ServerAccept ==
    /\ spc = "accept"
    /\ backlog # << >>
    /\ sconn' = Head(backlog)
    /\ backlog' = Tail(backlog)
    /\ sside' = [sside EXCEPT ![Head(backlog)] = "open"]
    /\ buffer' = << >>
    /\ spc' = "recv"
    /\ UNCHANGED <<serr, listening, extracted, acks, nreads, c2s, s2c, cside,
                   written, reset>>
    /\ UNCHANGED clientVars
    /\ UNCHANGED pureVars

\* data = conn.recv(1024) returning n >= 1 bytes;  buffer += data
ServerRecv ==
    /\ spc = "recv"
    /\ c2s[sconn] # << >>
    /\ \E n \in 1..Min(Len(c2s[sconn]), RECV_SIZE) :
          /\ buffer' = buffer \o Slice(c2s[sconn], 0, n)
          /\ c2s' = [c2s EXCEPT ![sconn] = SliceFrom(c2s[sconn], n)]
          /\ nreads' = Min(nreads + 1, ReadsTracked)
    /\ spc' = "loop"
    /\ UNCHANGED <<serr, listening, backlog, sconn, extracted, acks, s2c, cside, sside,
                   written, reset>>
    /\ UNCHANGED clientVars
    /\ UNCHANGED pureVars

\* The peer closed its socket while bytes the server wrote had arrived there
\* unread: its kernel reset the connection instead of ending the stream, so
\* no read of the server returns b"" on it.
Aborted(k) == reset[k] = "aborted"

\* a zero-length read after which the server closes the connection and goes
\* back to s.accept()
ServerRecvEOF_AcceptsNext ==
    /\ spc = "recv"
    /\ c2s[sconn] = << >>
    /\ cside[sconn] = "closed"
    /\ ~Aborted(sconn)
    /\ spc' = "accept"
    /\ sside' = [sside EXCEPT ![sconn] = "closed"]
    /\ UNCHANGED <<serr, listening, backlog, sconn, buffer, extracted, acks,
                   nreads, c2s, s2c, cside, written, reset>>
    /\ UNCHANGED clientVars
    /\ UNCHANGED pureVars

\* a zero-length read that ends the server with an error when bytes of an
\* unfinished frame are left in the buffer
ServerRecvEOF_LeftoverIsError ==
    /\ spc = "recv"
    /\ c2s[sconn] = << >>
    /\ cside[sconn] = "closed"
    /\ ~Aborted(sconn)
    /\ IF buffer = << >>
       THEN ServerEnds("done", "none")
       ELSE ServerEnds("crashed", "ValueError")
    /\ UNCHANGED <<sconn, buffer, extracted, acks, nreads, c2s, s2c, cside,
                   written, reset>>
    /\ UNCHANGED clientVars
    /\ UNCHANGED pureVars

\* data = conn.recv(1024) returning b"":  break, and the with-blocks are left
ServerRecvEOF ==
    /\ spc = "recv"
    /\ c2s[sconn] = << >>
    /\ cside[sconn] = "closed"
    /\ ~Aborted(sconn)
    /\ ServerEnds("done", "none")
    /\ UNCHANGED <<sconn, buffer, extracted, acks, nreads, c2s, s2c, cside,
                   written, reset>>
    /\ UNCHANGED clientVars
    /\ UNCHANGED pureVars

\* data = conn.recv(1024) raises ConnectionResetError: the peer has closed
\* with an acknowledgment unread, and every byte it wrote has been received
ServerRecvReset ==
    /\ spc = "recv"
    /\ c2s[sconn] = << >>
    /\ Aborted(sconn)
    /\ ServerEnds("crashed", "OSError")
    /\ UNCHANGED <<sconn, buffer, extracted, acks, nreads, c2s, s2c, cside,
                   written, reset>>
    /\ UNCHANGED clientVars
    /\ UNCHANGED pureVars

\* the inner while condition is false: back to conn.recv
ServerLoopExit ==
    /\ spc = "loop"
    /\ ~LoopCond(buffer)
    /\ spc' = "recv"
    /\ UNCHANGED <<serr, listening, backlog, sconn, buffer, extracted, acks, nreads>>
    /\ UNCHANGED netVars
    /\ UNCHANGED clientVars
    /\ UNCHANGED pureVars

\* One iteration of the inner while loop: slice, decode, advance, print, sendall.
\* sendall to a peer that has closed its end goes through, the bytes are
\* dropped and the peer answers with a reset; once it has, sendall may raise:
\* the message has been printed, nothing is written for it and the server ends.
ServerExtract ==
    /\ spc = "loop"
    /\ LoopCond(buffer)
    /\ LET d == Utf8Decode(FrameBytes(buffer))
           ack == build_ack(LoopAckControlId)
       IN  IF ~d.ok
           THEN /\ ServerEnds("crashed", "UnicodeDecodeError")
                /\ UNCHANGED <<sconn, buffer, extracted, acks, nreads, c2s,
                               s2c, cside, written, reset>>
           ELSE /\ buffer' = Advance(buffer)
                /\ extracted' = Append(extracted, [msg |-> d.text])
                /\ \/ /\ cside[sconn] = "open"
                      /\ acks' = SendAck(acks, Len(extracted) + 1)
                      /\ s2c' = [s2c EXCEPT ![sconn] = @ \o ack]
                      /\ UNCHANGED <<spc, serr, listening, backlog, sside, reset>>
                   \/ /\ cside[sconn] = "closed"
                      /\ acks' = SendAck(acks, Len(extracted) + 1)
                      /\ reset' = [reset EXCEPT ![sconn] = IF @ = "none" THEN "reset" ELSE @]
                      /\ UNCHANGED <<s2c, spc, serr, listening, backlog, sside>>
                   \/ /\ reset[sconn] # "none"
                      /\ ServerEnds("crashed", "OSError")
                      /\ UNCHANGED <<acks, s2c, reset>>
                /\ UNCHANGED <<sconn, nreads, c2s, cside, written>>
    /\ UNCHANGED clientVars
    /\ UNCHANGED pureVars

\* the server's steps when its peer reads nothing and has nothing unread
\* when it closes
NextFrame ==
    \/ ServerAccept
    \/ ServerRecv
    \/ ServerRecvEOF
    \/ ServerLoopExit
    \/ ServerExtract

\* ------------------------------------------------- framing specification
\* One peer has connected and written a byte stream; it has closed, or it
\* keeps its end open, writes no more and reads nothing.  The server is
\* listening.  The stream is either the frames of up to MaxFrames texts or
\* up to MaxRaw arbitrary bytes.
TextAlphabet == {233, EB}
RawAlphabet == {SB, EB, CR, 65, 255}
Texts == SeqsUpTo(TextAlphabet, MaxTextLen)
TextSeqs == SeqsUpTo(Texts, MaxFrames)
RawStreams == SeqsUpTo(RawAlphabet, MaxRaw)
\* "20250101120000"
SampleTime == <<50, 48, 50, 53, 48, 49, 48, 49, 49, 50, 48, 48, 48, 48>>
SampleNow == 1700000000
\* the header segment a fresh HL7Builder emits at SampleNow
Hl7Texts == {msh(NewBuilder, SampleTime, SampleNow)}

RECURSIVE WrapAll(_)
WrapAll(ms) == IF ms = << >> THEN << >> ELSE wrap(Head(ms)) \o WrapAll(Tail(ms))

InitServer ==
    /\ spc = "accept"
    /\ serr = "none"
    /\ listening = TRUE
    /\ sconn = 0
    /\ buffer = << >>
    /\ extracted = << >>
    /\ acks = << >>
    /\ nreads = 0

\* builder = HL7Builder(); nothing built yet
InitBuilder ==
    /\ bld = NewBuilder
    /\ clk = 0
    /\ ids = << >>
    /\ obxs = << >>

InitPure ==
    /\ pfun = "none"
    /\ parg = << >>
    /\ pout = << >>
    /\ InitBuilder

\* MLLPClient.__init__: self.sock = None; keepalive is the caller's choice
\* (clients differ in nothing else, so the keep-alive ones are numbered first)
InitClients ==
    /\ sock = [c \in Clients |-> 0]
    /\ \E j \in 0..MaxClients : keepalive = [c \in Clients |-> c <= j]
    /\ cpc = [c \in Clients |-> "idle"]
    /\ outcome = [c \in Clients |-> "new"]
    /\ ret = [c \in Clients |-> << >>]
    /\ sends = 0
    /\ connects = [c \in Clients |-> 0]
    /\ returned = [c \in Clients |-> 0]

\* no MLLPClient takes part: the peer is not one
NoClients ==
    /\ sock = [c \in Clients |-> 0]
    /\ keepalive = [c \in Clients |-> TRUE]
    /\ cpc = [c \in Clients |-> "idle"]
    /\ outcome = [c \in Clients |-> "new"]
    /\ ret = [c \in Clients |-> << >>]
    /\ sends = 0
    /\ connects = [c \in Clients |-> 0]
    /\ returned = [c \in Clients |-> 0]

InitFrame ==
    /\ InitServer
    /\ InitPure
    /\ NoClients
    /\ backlog = <<1>>
    /\ \E ms \in TextSeqs \cup {<<m>> : m \in Hl7Texts}, raw \in RawStreams :
          /\ ms = << >> \/ raw = << >>
          /\ written = [k \in ConnIds |-> IF k = 1 THEN ms ELSE << >>]
          /\ c2s = [k \in ConnIds |-> IF k = 1 THEN WrapAll(ms) \o raw ELSE << >>]
    /\ s2c = [k \in ConnIds |-> << >>]
    /\ \E end \in {"open", "closed"} :
          cside = [k \in ConnIds |-> IF k = 1 THEN end ELSE "none"]
    /\ sside = [k \in ConnIds |-> IF k = 1 THEN "queued" ELSE "none"]
    /\ reset = [k \in ConnIds |-> "none"]

SpecFrame == InitFrame /\ [][NextFrame]_vars

\* ------------------------------------------- acknowledgment specification
\* build_ack applied to one control id: texts of up to MaxCtrlLen characters
\* and the identifier of the first message of a builder.
CtrlIdAlphabet == {49, 77, 45, 233}
CtrlIds == SeqsUpTo(CtrlIdAlphabet, MaxCtrlLen) \cup {CtrlIdText(NewBuilder, SampleNow)}

InitAck ==
    /\ InitServer
    /\ backlog = << >>
    /\ c2s = [k \in ConnIds |-> << >>]
    /\ s2c = [k \in ConnIds |-> << >>]
    /\ cside = [k \in ConnIds |-> "none"]
    /\ sside = [k \in ConnIds |-> "none"]
    /\ written = [k \in ConnIds |-> << >>]
    /\ reset = [k \in ConnIds |-> "none"]
    /\ NoClients
    /\ pfun = "none"
    /\ parg \in CtrlIds
    /\ pout = << >>
    /\ InitBuilder

ApplyBuildAck ==
    /\ pfun = "none"
    /\ pfun' = "build_ack"
    /\ pout' = build_ack(parg)
    /\ UNCHANGED parg
    /\ UNCHANGED builderVars
    /\ UNCHANGED serverVars
    /\ UNCHANGED netVars
    /\ UNCHANGED clientVars

NextAck == ApplyBuildAck

SpecAck == InitAck /\ [][NextAck]_vars

\* ------------------------------------------------- builder specification
\* One HL7Builder and its caller, as in the simulators' main loops: the
\* caller builds observation segments into a list, then the message; the
\* clock advances between the calls.
SamplePatientId == <<49, 50, 51, 52, 53, 54>> (* "123456" *)
SamplePatientName == <<68, 79, 69, 94, 74, 79, 72, 78>> (* "DOE^JOHN" *)
SampleDeviceId == <<77, 79, 78, 73, 84, 79, 82, 94, 73, 67, 85, 45, 48, 49>> (* "MONITOR^ICU-01" *)
SampleUuid == <<51, 102, 50, 98, 56, 99, 49, 101, 45, 48, 100, 52, 97, 45, 52, 99, 54, 101, 45, 57, 98, 55, 97, 45, 53, 101, 49, 102, 50, 97, 51, 98, 52, 99, 53, 100>> (* "3f2b8c1e-0d4a-4c6e-9b7a-5e1f2a3b4c5d" *)

\* the metrics of monitor_sim, in its order: code, text, coding system,
\* units code, key of the snapshot
SampleMetrics ==
    << [code |-> <<56, 56, 54, 55, 45, 52>> (* "8867-4" *), text |-> <<72, 101, 97, 114, 116, 32, 114, 97, 116, 101>> (* "Heart rate" *),
        coding_system |-> <<76, 78>> (* "LN" *), units_code |-> <<47, 109, 105, 110>> (* "/min" *), key |-> "HR"],
       [code |-> <<53, 57, 52, 48, 56, 45, 53>> (* "59408-5" *), text |-> <<79, 120, 121, 103, 101, 110, 32, 115, 97, 116, 117, 114, 97, 116, 105, 111, 110, 32, 105, 110, 32, 65, 114, 116, 101, 114, 105, 97, 108, 32, 98, 108, 111, 111, 100, 32, 98, 121, 32, 80, 117, 108, 115, 101, 32, 111, 120, 105, 109, 101, 116, 114, 121>> (* "Oxygen saturation in Arterial blood by Pulse oximetry" *),
        coding_system |-> <<76, 78>> (* "LN" *), units_code |-> <<37>> (* "%" *), key |-> "SpO2"],
       [code |-> <<56, 51, 49, 48, 45, 53>> (* "8310-5" *), text |-> <<66, 111, 100, 121, 32, 116, 101, 109, 112, 101, 114, 97, 116, 117, 114, 101>> (* "Body temperature" *),
        coding_system |-> <<76, 78>> (* "LN" *), units_code |-> <<67, 101, 108>> (* "Cel" *), key |-> "Temp"],
       [code |-> <<56, 52, 56, 48, 45, 54>> (* "8480-6" *), text |-> <<83, 121, 115, 116, 111, 108, 105, 99, 32, 98, 108, 111, 111, 100, 32, 112, 114, 101, 115, 115, 117, 114, 101>> (* "Systolic blood pressure" *),
        coding_system |-> <<76, 78>> (* "LN" *), units_code |-> <<109, 109, 91, 72, 103, 93>> (* "mm[Hg]" *), key |-> "Sys"],
       [code |-> <<56, 52, 54, 50, 45, 52>> (* "8462-4" *), text |-> <<68, 105, 97, 115, 116, 111, 108, 105, 99, 32, 98, 108, 111, 111, 100, 32, 112, 114, 101, 115, 115, 117, 114, 101>> (* "Diastolic blood pressure" *),
        coding_system |-> <<76, 78>> (* "LN" *), units_code |-> <<109, 109, 91, 72, 103, 93>> (* "mm[Hg]" *), key |-> "Dia"],
       [code |-> <<56, 52, 55, 56, 45, 48>> (* "8478-0" *), text |-> <<77, 101, 97, 110, 32, 98, 108, 111, 111, 100, 32, 112, 114, 101, 115, 115, 117, 114, 101>> (* "Mean blood pressure" *),
        coding_system |-> <<76, 78>> (* "LN" *), units_code |-> <<109, 109, 91, 72, 103, 93>> (* "mm[Hg]" *), key |-> "MAP"] >>

\* a snapshot of the MonitorModel: round(x) for HR, Sys, Dia and MAP,
\* round(x, 1) for SpO2 and Temp
SampleSnapshot ==
    [k \in {"HR", "SpO2", "Temp", "Sys", "Dia", "MAP"} |->
        CASE k = "HR" -> [int |-> 82] [] k = "SpO2" -> [tenths |-> 974]
          [] k = "Temp" -> [tenths |-> 369] [] k = "Sys" -> [int |-> 120]
          [] k = "Dia" -> [int |-> 80] [] k = "MAP" -> [int |-> 93]]

\* b = HL7Builder(sending_app="MONITOR_SIM")
MonitorBuilder == [NewBuilder EXCEPT !.sending_app = <<77, 79, 78, 73, 84, 79, 82, 95, 83, 73, 77>> (* "MONITOR_SIM" *)]

\* message_time: omitted or given
MessageTimes == {None, SampleTime}
\* observation_time: omitted, empty or given
ObservationTimes == {None, << >>, SampleTime}

\* a next_ctrl_id() that does not increment
AfterNextCtrlId_NoIncrement(self) == self

\* self after next_ctrl_id():  self.ctrl_id += 1
AfterNextCtrlId(self) == [self EXCEPT !.ctrl_id = @ + 1]

\* the segments of the caller's list
ObxSegments(list) == [i \in 1..Len(list) |-> list[i].seg]

\* time passes between two calls
Tick ==
    /\ clk < MaxClock
    /\ clk' = clk + 1
    /\ UNCHANGED <<pfun, parg, pout, bld, ids, obxs>>
    /\ UNCHANGED serverVars
    /\ UNCHANGED netVars
    /\ UNCHANGED clientVars

\* b.next_ctrl_id()
CallNextCtrlId ==
    /\ Len(ids) < MaxIds
    /\ pfun' = "next_ctrl_id"
    /\ parg' = << >>
    /\ pout' = CtrlIdText(bld, TimeAt(clk))
    /\ ids' = Append(ids, CtrlIdText(bld, TimeAt(clk)))
    /\ bld' = AfterNextCtrlId(bld)
    /\ UNCHANGED <<clk, obxs>>
    /\ UNCHANGED serverVars
    /\ UNCHANGED netVars
    /\ UNCHANGED clientVars

\* b.msh(message_time): the header, with the id next_ctrl_id() returns
CallMsh(message_time) ==
    /\ Len(ids) < MaxIds
    /\ pfun' = "msh"
    /\ parg' = [message_time |-> message_time]
    /\ pout' = msh(bld, message_time, TimeAt(clk))
    /\ ids' = Append(ids, CtrlIdText(bld, TimeAt(clk)))
    /\ bld' = AfterNextCtrlId(bld)
    /\ UNCHANGED <<clk, obxs>>
    /\ UNCHANGED serverVars
    /\ UNCHANGED netVars
    /\ UNCHANGED clientVars

\* obxs.append(b.obx_numeric(i, code, text, cs, value, unit, observation_time=..))
\* for the next metric of the caller's list
CallObxNumeric(observation_time) ==
    /\ Len(obxs) < MaxObx
    /\ Len(obxs) < Len(SampleMetrics)
    /\ LET i == Len(obxs) + 1
           m == SampleMetrics[i]
           r == obx_numeric(bld, i, m.code, m.text, m.coding_system, SampleSnapshot[m.key],
                            m.units_code, << >>, <<85, 67, 85, 77>> (* "UCUM" *), observation_time,
                            << >>, clk)
       IN  /\ pfun' = "obx_numeric"
           /\ parg' = [set_id |-> i, observation_time |-> observation_time]
           /\ pout' = r
           /\ obxs' = Append(obxs, [seg |-> r, given |-> observation_time])
    /\ UNCHANGED <<bld, clk, ids>>
    /\ UNCHANGED serverVars
    /\ UNCHANGED netVars
    /\ UNCHANGED clientVars

\* the seconds at which a call that reads the clock twice can make its second
\* read, the first being at second t
LaterReads(t) == {u \in {t, t + 1} : u <= MaxClock}

\* msg = b.build_message(patient_id, patient_name, device_id, obxs, message_time).
\* With message_time omitted ts() reads the clock, and next_ctrl_id reads it
\* again afterwards: the second may have changed in between.  The caller's
\* list is left as it is.
CallBuildMessage(message_time) ==
    /\ Len(ids) < MaxIds
    /\ \E tid \in (IF OrElse(message_time, None) = None THEN LaterReads(clk) ELSE {clk}) :
          /\ pfun' = "build_message"
          /\ parg' = [message_time |-> message_time, obx_segments |-> obxs]
          /\ pout' = build_message(bld, SamplePatientId, SamplePatientName, SampleDeviceId,
                                   ObxSegments(obxs), message_time, clk, tid, SampleUuid)
          /\ ids' = Append(ids, CtrlIdText(bld, TimeAt(tid)))
          /\ clk' = tid
    /\ bld' = AfterNextCtrlId(bld)
    /\ UNCHANGED obxs
    /\ UNCHANGED serverVars
    /\ UNCHANGED netVars
    /\ UNCHANGED clientVars

\* obxs = []  at the start of the caller's next iteration
NewObxList ==
    /\ obxs # << >>
    /\ obxs' = << >>
    /\ UNCHANGED <<pfun, parg, pout, bld, clk, ids>>
    /\ UNCHANGED serverVars
    /\ UNCHANGED netVars
    /\ UNCHANGED clientVars

\* b = HL7Builder(sending_app="MONITOR_SIM"); nothing built yet
InitMonitor ==
    /\ bld = MonitorBuilder
    /\ clk = 0
    /\ ids = << >>
    /\ obxs = << >>

InitBuild ==
    /\ InitServer
    /\ backlog = << >>
    /\ c2s = [k \in ConnIds |-> << >>]
    /\ s2c = [k \in ConnIds |-> << >>]
    /\ cside = [k \in ConnIds |-> "none"]
    /\ sside = [k \in ConnIds |-> "none"]
    /\ written = [k \in ConnIds |-> << >>]
    /\ reset = [k \in ConnIds |-> "none"]
    /\ NoClients
    /\ pfun = "none"
    /\ parg = << >>
    /\ pout = << >>
    /\ InitMonitor

NextBuild ==
    \/ Tick
    \/ CallNextCtrlId
    \/ \E t \in MessageTimes \ {None} : CallMsh(t)
    \/ \E t \in ObservationTimes : CallObxNumeric(t)
    \/ \E t \in MessageTimes : CallBuildMessage(t)
    \/ NewObxList

SpecBuild == InitBuild /\ [][NextBuild]_vars

\* --------------------------------------------------- panel specification
\* icu_h17_simulator: HL7Builder.build makes one message from a value map.
\* the metrics of build, in its order: key of the value map, identifier,
\* text, coding system, units code
IcuMetrics ==
    << [key |-> "HR", code |-> <<56, 56, 54, 55, 45, 52>> (* "8867-4" *), text |-> <<72, 101, 97, 114, 116, 32, 114, 97, 116, 101>> (* "Heart rate" *),
        coding_system |-> <<76, 78>> (* "LN" *), units_code |-> <<47, 109, 105, 110>> (* "/min" *)],
       [key |-> "RR", code |-> <<57, 50, 55, 57, 45, 49>> (* "9279-1" *), text |-> <<82, 101, 115, 112, 105, 114, 97, 116, 111, 114, 121, 32, 114, 97, 116, 101>> (* "Respiratory rate" *),
        coding_system |-> <<76, 78>> (* "LN" *), units_code |-> <<47, 109, 105, 110>> (* "/min" *)],
       [key |-> "SpO2", code |-> <<53, 57, 52, 48, 56, 45, 53>> (* "59408-5" *),
        text |-> <<79, 120, 121, 103, 101, 110, 32, 115, 97, 116, 117, 114, 97, 116, 105, 111, 110, 32, 105, 110, 32, 65, 114, 116, 101, 114, 105, 97, 108, 32, 98, 108, 111, 111, 100, 32, 98, 121, 32, 80, 117, 108, 115, 101, 32, 111, 120, 105, 109, 101, 116, 114, 121>> (* "Oxygen saturation in Arterial blood by Pulse oximetry" *),
        coding_system |-> <<76, 78>> (* "LN" *), units_code |-> <<37>> (* "%" *)],
       [key |-> "Temp", code |-> <<56, 51, 49, 48, 45, 53>> (* "8310-5" *), text |-> <<66, 111, 100, 121, 32, 116, 101, 109, 112, 101, 114, 97, 116, 117, 114, 101>> (* "Body temperature" *),
        coding_system |-> <<76, 78>> (* "LN" *), units_code |-> <<67, 101, 108>> (* "Cel" *)],
       [key |-> "Sys", code |-> <<56, 52, 56, 48, 45, 54>> (* "8480-6" *), text |-> <<83, 121, 115, 116, 111, 108, 105, 99, 32, 98, 108, 111, 111, 100, 32, 112, 114, 101, 115, 115, 117, 114, 101>> (* "Systolic blood pressure" *),
        coding_system |-> <<76, 78>> (* "LN" *), units_code |-> <<109, 109, 91, 72, 103, 93>> (* "mm[Hg]" *)],
       [key |-> "Dia", code |-> <<56, 52, 54, 50, 45, 52>> (* "8462-4" *), text |-> <<68, 105, 97, 115, 116, 111, 108, 105, 99, 32, 98, 108, 111, 111, 100, 32, 112, 114, 101, 115, 115, 117, 114, 101>> (* "Diastolic blood pressure" *),
        coding_system |-> <<76, 78>> (* "LN" *), units_code |-> <<109, 109, 91, 72, 103, 93>> (* "mm[Hg]" *)],
       [key |-> "MAP", code |-> <<56, 52, 55, 56, 45, 48>> (* "8478-0" *), text |-> <<77, 101, 97, 110, 32, 98, 108, 111, 111, 100, 32, 112, 114, 101, 115, 115, 117, 114, 101>> (* "Mean blood pressure" *),
        coding_system |-> <<76, 78>> (* "LN" *), units_code |-> <<109, 109, 91, 72, 103, 93>> (* "mm[Hg]" *)] >>

\* the OBX segment build appends for metric m with the given set id and value
IcuObx(set_id, m, value, message_time) ==
    seg(<<79, 66, 88>> (* "OBX" *),
        << Dec(set_id),
           <<78, 77>> (* "NM" *),
           comp(<<m.code, m.text, m.coding_system>>),
           << >>,
           StrValue(value),
           comp(<<m.units_code, << >>, <<85, 67, 85, 77>> (* "UCUM" *)>>),
           << >>,
           << >>,
           << >>,
           << >>,
           <<70>> (* "F" *),
           << >>,
           message_time >>
        \o Empties(12))

RECURSIVE IcuObxFrom(_, _, _, _)
\* the for loop of build from the i-th metric on, set_id the next set id:
\* vitals.get(key) is None for a key the map lacks, and the metric is skipped
IcuObxFrom(i, set_id, vitals, message_time) ==
    IF i > Len(IcuMetrics) THEN << >>
    ELSE IF IcuMetrics[i].key \notin DOMAIN vitals
         THEN IcuObxFrom(i + 1, set_id, vitals, message_time)
         ELSE <<IcuObx(set_id, IcuMetrics[i], vitals[IcuMetrics[i].key], message_time)>>
              \o IcuObxFrom(i + 1, set_id + 1, vitals, message_time)

\* build(patient_id, patient_name, device_id, vitals): tnow is the second at
\* which datetime.now() reads the clock, tid the second at which next_ctrl_id
\* reads it afterwards
build(self, patient_id, patient_name, device_id, vitals, tnow, tid, uuid) ==
    LET message_time == ts(tnow)
    IN  msh(self, message_time, TimeAt(tid))
        \o pid(self, patient_id, patient_name, <<77>> (* "M" *))
        \o obr(self, message_time, device_id, DefaultPanelCode, uuid)
        \o Concat(IcuObxFrom(1, 1, vitals, message_time))

\* the value a snapshot gives each metric: round(x), and round(x, 1) for
\* SpO2 and Temp
SampleValues ==
    [k \in {"HR", "RR", "SpO2", "Temp", "Sys", "Dia", "MAP"} |->
        CASE k = "HR" -> [int |-> 82] [] k = "RR" -> [int |-> 16]
          [] k = "SpO2" -> [tenths |-> 974] [] k = "Temp" -> [tenths |-> 369]
          [] k = "Sys" -> [int |-> 120] [] k = "Dia" -> [int |-> 80]
          [] k = "MAP" -> [int |-> 93]]

\* the value maps: a snapshot with any of its keys missing
VitalsMaps == {[k \in S |-> SampleValues[k]] : S \in SUBSET DOMAIN SampleValues}

InitPanel ==
    /\ InitServer
    /\ backlog = << >>
    /\ c2s = [k \in ConnIds |-> << >>]
    /\ s2c = [k \in ConnIds |-> << >>]
    /\ cside = [k \in ConnIds |-> "none"]
    /\ sside = [k \in ConnIds |-> "none"]
    /\ written = [k \in ConnIds |-> << >>]
    /\ reset = [k \in ConnIds |-> "none"]
    /\ NoClients
    /\ pfun = "none"
    /\ parg \in VitalsMaps
    /\ pout = << >>
    /\ InitBuilder

\* msg = builder.build(patient_id=.., patient_name=.., device_id=.., vitals=snapshot):
\* datetime.now() reads the clock, and next_ctrl_id reads it again afterwards
ApplyBuild ==
    /\ pfun = "none"
    /\ pfun' = "build"
    /\ \E tid \in LaterReads(clk) :
          /\ pout' = build(bld, SamplePatientId, SamplePatientName, SampleDeviceId,
                           parg, clk, tid, SampleUuid)
          /\ ids' = Append(ids, CtrlIdText(bld, TimeAt(tid)))
          /\ clk' = tid
    /\ bld' = AfterNextCtrlId(bld)
    /\ UNCHANGED <<parg, obxs>>
    /\ UNCHANGED serverVars
    /\ UNCHANGED netVars
    /\ UNCHANGED clientVars

NextPanel ==
    \/ Tick
    \/ ApplyBuild

SpecPanel == InitPanel /\ [][NextPanel]_vars

\* --------------------------------------------------- order specification
\* obr applied to one message time and one device id, the panel code left to
\* its default; uuid is the text str(uuid4()) gives.
DeviceIdAlphabet == {77, 94, 49}
DeviceIds == SeqsUpTo(DeviceIdAlphabet, MaxDeviceLen) \cup {SampleDeviceId}
OrderTimes == {<< >>, SampleTime, ts(1), ts(61)}
Uuids == {SampleUuid, <<48>> (* "0" *)}

InitOrder ==
    /\ InitServer
    /\ backlog = << >>
    /\ c2s = [k \in ConnIds |-> << >>]
    /\ s2c = [k \in ConnIds |-> << >>]
    /\ cside = [k \in ConnIds |-> "none"]
    /\ sside = [k \in ConnIds |-> "none"]
    /\ written = [k \in ConnIds |-> << >>]
    /\ reset = [k \in ConnIds |-> "none"]
    /\ NoClients
    /\ pfun = "none"
    /\ parg \in [message_time : OrderTimes, device_id : DeviceIds, uuid : Uuids]
    /\ pout = << >>
    /\ InitBuilder

\* b.obr(message_time, device_id)
ApplyObr ==
    /\ pfun = "none"
    /\ pfun' = "obr"
    /\ pout' = obr(bld, parg.message_time, parg.device_id, DefaultPanelCode, parg.uuid)
    /\ UNCHANGED parg
    /\ UNCHANGED builderVars
    /\ UNCHANGED serverVars
    /\ UNCHANGED netVars
    /\ UNCHANGED clientVars

NextOrder == ApplyObr

SpecOrder == InitOrder /\ [][NextOrder]_vars

\* ------------------------------------------------------------------ client
\* the texts the callers pass to send(): "A", and "\ud800", a lone surrogate
ClientTexts == {<<65>>, <<55296>>}

\* str.encode("utf-8") returns: no code point of the text is a surrogate;
\* otherwise it raises UnicodeEncodeError
Encodable(text) == \A i \in 1..Len(text) : text[i] < 55296 \/ text[i] > 57343

\* the connections created so far are 1..Opened
Opened == Cardinality({k \in ConnIds : cside[k] # "none"})

\* a connect() that opens a connection on every call
NeedsConnect_Always(s) == TRUE

\* connect():  if self.sock is None
NeedsConnect(s) == s = 0

\* a close() that closes the socket and keeps it in self.sock
close_KeepSock(s) == s

\* self.sock after close():  if self.sock: self.sock.close(); self.sock = None
close(s) == IF s # 0 THEN 0 ELSE s

\* the finally clause of send() closing whatever keepalive says
SockAfterFinally_AlwaysClose(keep, k) == 0

\* self.sock after the finally clause of send():  if not self.keepalive: self.close()
SockAfterFinally(keep, k) == IF ~keep THEN close(k) ELSE k

\* the peer's end of the connections once client c has left send() holding k
CsideAfterFinally(c, k, cs) ==
    IF k # 0 /\ SockAfterFinally(keepalive[c], k) = 0 THEN [cs EXCEPT ![k] = "closed"] ELSE cs

\* what reset can be once socket k has been closed with the bytes unread
\* written to it and not read.  Bytes that had arrived make the close a
\* reset; bytes still on their way find the socket closed after the end of
\* the stream was sent, and are answered with a reset.  Which of the bytes
\* written have arrived is not known to either program.
ResetAfterClose(k, unread, rs) ==
    IF unread = << >> \/ rs[k] # "none" THEN {rs}
    ELSE {[rs EXCEPT ![k] = "aborted"], [rs EXCEPT ![k] = "reset"]}

\* what reset can be once client c has left send() holding k
ResetAfterFinally(c, k, unread, rs) ==
    IF k # 0 /\ SockAfterFinally(keepalive[c], k) = 0 THEN ResetAfterClose(k, unread, rs) ELSE {rs}

\* the sizes the acknowledgment read can return when avail bytes have been
\* written and not read: recv(4096) returns what has arrived, at least one
\* byte and at most 4096; each sendall of the server arrives whole, so what
\* has not arrived is a whole number of acknowledgments
AckReadSizes(avail) ==
    LET len == Len(build_ack(LoopAckControlId))
    IN  {n \in {avail - j * len : j \in 0..(avail \div len)} \cup {Min(avail, ACK_RECV_SIZE)} :
            n >= 1 /\ n <= ACK_RECV_SIZE}

\* socket.create_connection succeeds: client c holds the new connection,
\* which waits in the listening socket's backlog
Connects(c) ==
    /\ listening
    /\ Opened < MaxConns
    /\ LET k == Opened + 1
       IN  /\ sock' = [sock EXCEPT ![c] = k]
           /\ cside' = [cside EXCEPT ![k] = "open"]
           /\ sside' = [sside EXCEPT ![k] = "queued"]
           /\ backlog' = Append(backlog, k)
    /\ connects' = [connects EXCEPT ![c] = @ + 1]

\* send() ends: returns text (<< >> for None) or raises
SendEnds(c, k, how, text) ==
    /\ sock' = [sock EXCEPT ![c] = SockAfterFinally(keepalive[c], k)]
    /\ cpc' = [cpc EXCEPT ![c] = "idle"]
    /\ outcome' = [outcome EXCEPT ![c] = how]
    /\ ret' = [ret EXCEPT ![c] = text]
    /\ returned' = [returned EXCEPT ![c] =
                       IF how = "raised" \/ @ = -1 THEN -1 ELSE @ + 1]

\* send() is entered by a client between two calls, or is past its connect()
InSend(c, pos) == cpc[c] = pos \/ (pos = "write" /\ cpc[c] = "idle" /\ ~NeedsConnect(sock[c]) /\ sends < MaxSends)

\* the send() calls started once client c has taken a step of send()
SendsAfter(c) == IF cpc[c] = "idle" THEN sends + 1 ELSE sends

\* connect() called by the caller on its own.  With self.sock None,
\* socket.create_connection either creates the connection or raises (nothing
\* listens, or the attempt times out while the server listens: its accept
\* queue is full, or the network drops it); the error reaches the caller and
\* the client is left as it was.  With self.sock set nothing is done.
ClientConnect(c) ==
    /\ cpc[c] = "idle"
    /\ \/ /\ NeedsConnect(sock[c])
          /\ Connects(c)
          /\ outcome' = [outcome EXCEPT ![c] = "connected"]
       \/ UNCHANGED <<sock, cside, sside, backlog, connects, outcome>>
    /\ UNCHANGED <<keepalive, cpc, ret, sends, returned, c2s, s2c, written, reset>>
    /\ UNCHANGED <<spc, serr, listening, sconn, buffer, extracted, acks, nreads>>
    /\ UNCHANGED pureVars

\* send(): hl7_message.encode raises UnicodeEncodeError before the try
\* statement is entered: no connect(), no write, no finally clause
SendEncodeFails(c, m) ==
    /\ cpc[c] = "idle"
    /\ sends < MaxSends
    /\ ~Encodable(m)
    /\ sends' = sends + 1
    /\ outcome' = [outcome EXCEPT ![c] = "encode_error"]
    /\ ret' = [ret EXCEPT ![c] = << >>]
    /\ returned' = [returned EXCEPT ![c] = -1]
    /\ UNCHANGED <<sock, keepalive, cpc, connects>>
    /\ UNCHANGED netVars
    /\ UNCHANGED serverVars
    /\ UNCHANGED pureVars

\* send(): connect() raises, whether or not the server listens (refused,
\* unreachable, timed out); the finally clause runs with self.sock None
SendConnectFails(c) ==
    /\ cpc[c] = "idle"
    /\ sends < MaxSends
    /\ NeedsConnect(sock[c])
    /\ sends' = sends + 1
    /\ SendEnds(c, 0, "raised", << >>)
    /\ UNCHANGED <<keepalive, connects, c2s, s2c, cside, sside, written, reset>>
    /\ UNCHANGED serverVars
    /\ UNCHANGED pureVars

\* send(): self.sock is None and connect() creates the connection; sendall
\* comes next, and the server may run in between
SendConnects(c) ==
    /\ cpc[c] = "idle"
    /\ sends < MaxSends
    /\ NeedsConnect(sock[c])
    /\ Connects(c)
    /\ sends' = sends + 1
    /\ cpc' = [cpc EXCEPT ![c] = "write"]
    /\ UNCHANGED <<keepalive, outcome, ret, returned, c2s, s2c, written, reset>>
    /\ UNCHANGED <<spc, serr, listening, sconn, buffer, extracted, acks, nreads>>
    /\ UNCHANGED pureVars

\* send(): sendall(data) goes through, after connect() has created the
\* connection or has found self.sock set; the client blocks in recv.  The
\* bytes written on a connection the server has closed are dropped.
SendWrites(c, m) ==
    /\ InSend(c, "write")
    /\ Encodable(m)
    /\ sends' = SendsAfter(c)
    /\ c2s' = [c2s EXCEPT ![sock[c]] =
                  IF sside[sock[c]] = "closed" THEN @ ELSE @ \o wrap(m)]
    /\ written' = [written EXCEPT ![sock[c]] = Append(@, m)]
    /\ cpc' = [cpc EXCEPT ![c] = "recv"]
    /\ UNCHANGED <<sock, keepalive, outcome, ret, connects, returned>>
    /\ UNCHANGED <<s2c, cside, sside, reset>>
    /\ UNCHANGED serverVars
    /\ UNCHANGED pureVars

\* a send() that, after sendall(data) has raised, goes on to read the
\* acknowledgment instead of letting the error out
SendWriteFails_ThenReads(c) ==
    /\ InSend(c, "write")
    /\ sside[sock[c]] = "closed"
    /\ sends' = SendsAfter(c)
    /\ cpc' = [cpc EXCEPT ![c] = "recv"]
    /\ UNCHANGED <<sock, keepalive, outcome, ret, connects, returned>>
    /\ UNCHANGED netVars
    /\ UNCHANGED serverVars
    /\ UNCHANGED pureVars

\* send(): sendall(data) raises on a connection the server has closed
SendWriteFails(c) ==
    /\ InSend(c, "write")
    /\ sside[sock[c]] = "closed"
    /\ sends' = SendsAfter(c)
    /\ SendEnds(c, sock[c], "raised", << >>)
    /\ cside' = CsideAfterFinally(c, sock[c], cside)
    /\ reset' \in ResetAfterFinally(c, sock[c], s2c[sock[c]], reset)
    /\ UNCHANGED <<keepalive, connects, c2s, s2c, sside, written>>
    /\ UNCHANGED serverVars
    /\ UNCHANGED pureVars

\* send(): ack = self.sock.recv(4096) returns bytes; they are decoded and returned
SendRecvAck(c) ==
    /\ cpc[c] = "recv"
    /\ s2c[sock[c]] # << >>
    /\ \E n \in AckReadSizes(Len(s2c[sock[c]])) :
          /\ SendEnds(c, sock[c], "ack", Utf8DecodeIgnore(Slice(s2c[sock[c]], 0, n)))
          /\ s2c' = [s2c EXCEPT ![sock[c]] = SliceFrom(@, n)]
          /\ reset' \in ResetAfterFinally(c, sock[c], SliceFrom(s2c[sock[c]], n), reset)
    /\ cside' = CsideAfterFinally(c, sock[c], cside)
    /\ UNCHANGED <<keepalive, sends, connects, c2s, sside, written>>
    /\ UNCHANGED serverVars
    /\ UNCHANGED pureVars

\* send(): recv raises socket.timeout, nothing having arrived in time
\* (whether or not the server has written by then); None is returned
SendRecvTimeout(c) ==
    /\ cpc[c] = "recv"
    /\ SendEnds(c, sock[c], "none", << >>)
    /\ cside' = CsideAfterFinally(c, sock[c], cside)
    /\ reset' \in ResetAfterFinally(c, sock[c], s2c[sock[c]], reset)
    /\ UNCHANGED <<keepalive, sends, connects, c2s, s2c, sside, written>>
    /\ UNCHANGED serverVars
    /\ UNCHANGED pureVars

\* send(): the server has closed the connection: recv returns b"" and None is
\* returned, or recv raises ConnectionResetError, which is not caught
SendRecvClosed(c) ==
    /\ cpc[c] = "recv"
    /\ s2c[sock[c]] = << >>
    /\ sside[sock[c]] = "closed"
    /\ \/ SendEnds(c, sock[c], "none", << >>)
       \/ SendEnds(c, sock[c], "raised", << >>)
    /\ cside' = CsideAfterFinally(c, sock[c], cside)
    /\ UNCHANGED <<keepalive, sends, connects, c2s, s2c, sside, written, reset>>
    /\ UNCHANGED serverVars
    /\ UNCHANGED pureVars

\* close() by the caller, in any state between two send() calls.  With a
\* socket held: it is closed and released, and the counts start again.  With
\* self.sock None the body of the if is skipped and nothing changes.
ClientClose(c) ==
    /\ cpc[c] = "idle"
    /\ sock' = [sock EXCEPT ![c] = close(@)]
    /\ IF sock[c] # 0
       THEN /\ cside' = [cside EXCEPT ![sock[c]] = "closed"]
            /\ reset' \in ResetAfterClose(sock[c], s2c[sock[c]], reset)
            /\ outcome' = [outcome EXCEPT ![c] = "closed"]
            /\ connects' = [connects EXCEPT ![c] = 0]
            /\ returned' = [returned EXCEPT ![c] = 0]
       ELSE UNCHANGED <<cside, reset, outcome, connects, returned>>
    /\ UNCHANGED <<keepalive, cpc, ret, sends, c2s, s2c, sside, written>>
    /\ UNCHANGED serverVars
    /\ UNCHANGED pureVars

\* --------------------------------------------------- system specification
\* The server listens; MaxClients clients, each constructed with either
\* keep-alive setting, send to it.
Init ==
    /\ InitServer
    /\ InitPure
    /\ InitClients
    /\ backlog = << >>
    /\ c2s = [k \in ConnIds |-> << >>]
    /\ s2c = [k \in ConnIds |-> << >>]
    /\ cside = [k \in ConnIds |-> "none"]
    /\ sside = [k \in ConnIds |-> "none"]
    /\ written = [k \in ConnIds |-> << >>]
    /\ reset = [k \in ConnIds |-> "none"]

Next ==
    \/ ServerAccept
    \/ ServerRecv
    \/ ServerRecvEOF
    \/ ServerRecvReset
    \/ ServerLoopExit
    \/ ServerExtract
    \/ \E c \in Clients : ClientConnect(c)
    \/ \E c \in Clients, m \in ClientTexts : SendEncodeFails(c, m)
    \/ \E c \in Clients : SendConnectFails(c)
    \/ \E c \in Clients : SendConnects(c)
    \/ \E c \in Clients, m \in ClientTexts : SendWrites(c, m)
    \/ \E c \in Clients : SendWriteFails(c)
    \/ \E c \in Clients : SendRecvAck(c)
    \/ \E c \in Clients : SendRecvTimeout(c)
    \/ \E c \in Clients : SendRecvClosed(c)
    \/ \E c \in Clients : ClientClose(c)

Spec == Init /\ [][Next]_vars

\* ------------------------------------------------------------------ claims
\* a text free of the framing characters 0x0B and 0x1C
Clean(m) == \A i \in 1..Len(m) : m[i] # SB /\ m[i] # EB

\* the messages extracted so far, in order
Msgs == [i \in 1..Len(extracted) |-> extracted[i].msg]

\* the texts whose frames the accepted connection's peer wrote
Sent == IF sconn = 0 THEN << >> ELSE written[sconn]

IsPrefix(p, q) == Len(p) <= Len(q) /\ \A i \in 1..Len(p) : p[i] = q[i]

RECURSIVE Split(_, _)
\* text.split(sep)
Split(t, sep) ==
    IF ~Contains(t, sep) THEN <<t>>
    ELSE LET i == Index(t, sep) + 1
         IN  <<SubSeq(t, 1, i - 1)>> \o Split(SubSeq(t, i + 1, Len(t)), sep)

\* C1: the frame of a text without 0x0B/0x1C, received in one read by a server
\* with an empty buffer, yields exactly that text and leaves the buffer empty.
RoundTripFraming ==
    (/\ Len(Sent) = 1
     /\ Clean(Sent[1])
     /\ nreads = 1
     /\ c2s[sconn] = << >>
     /\ spc # "loop")
    => (Msgs = <<Sent[1]>> /\ buffer = << >>)

RoundTripWitness ==
    /\ Len(Sent) = 1
    /\ Len(Sent[1]) = MaxTextLen
    /\ Sent[1][1] = 233
    /\ nreads = 1
    /\ c2s[sconn] = << >>
    /\ spc = "recv"
    /\ Msgs = <<Sent[1]>>

\* C2: a frame cut at any byte offset into two reads: nothing is extracted or
\* acknowledged after the first read, exactly the message after the second.
SplitFrameTolerance ==
    (Len(Sent) = 1 /\ Clean(Sent[1]))
    => /\ (nreads = 1 /\ c2s[sconn] # << >>)
          => (extracted = << >> /\ acks = << >>)
       /\ (nreads = 2 /\ c2s[sconn] = << >> /\ spc # "loop")
          => Msgs = <<Sent[1]>>

\* C3: two frames received in one read are extracted in order, both before
\* the next read.
MultiFrameBatching ==
    (/\ Len(Sent) = 2
     /\ Clean(Sent[1])
     /\ Clean(Sent[2])
     /\ nreads = 1
     /\ c2s[sconn] = << >>)
    => /\ IsPrefix(Msgs, Sent)
       /\ spc \in {"recv", "done"} => Msgs = Sent

MultiFrameWitness ==
    /\ Len(Sent) = 2
    /\ Clean(Sent[1])
    /\ Clean(Sent[2])
    /\ Sent[1] # Sent[2]
    /\ Sent[1] # << >>
    /\ nreads = 1
    /\ c2s[sconn] = << >>
    /\ spc = "recv"
    /\ Msgs = Sent

\* position (1-based) of the first SB of buf, 0 when there is none
FirstSB(buf) == IF Contains(buf, SB) THEN Index(buf, SB) + 1 ELSE 0
\* an EB occurs after the first SB
HasEndAfterStart(buf) ==
    /\ FirstSB(buf) > 0
    /\ \E j \in (FirstSB(buf) + 1)..Len(buf) : buf[j] = EB
\* the bytes strictly between the first SB and the first EB after it
BytesBetween(buf) ==
    LET s == FirstSB(buf)
        e == CHOOSE j \in (s + 1)..Len(buf) :
                 buf[j] = EB /\ \A k \in (s + 1)..(j - 1) : buf[k] # EB
    IN  SubSeq(buf, s + 1, e - 1)

\* C4: every extracted message is the bytes strictly between the first SB of
\* the buffer and the first EB after that SB; with no EB after the first SB
\* nothing is extracted and the buffer is kept.
FrameExtractionRule ==
    [][spc = "loop"
       => /\ Len(extracted') = Len(extracted) + 1
             => /\ HasEndAfterStart(buffer)
                /\ Utf8Decode(BytesBetween(buffer)) =
                      [ok |-> TRUE, text |-> extracted'[Len(extracted')].msg]
          /\ ~HasEndAfterStart(buffer)
             => (extracted' = extracted /\ buffer' = buffer)]_vars

IsFrame(f) == Len(f) >= 3 /\ f[1] = SB /\ f[Len(f) - 1] = EB /\ f[Len(f)] = CR

RECURSIVE Repeat(_, _)
\* n copies of the bytes f, one after the other
Repeat(f, n) == IF n = 0 THEN << >> ELSE f \o Repeat(f, n - 1)

\* C5 as stated: one acknowledgment frame is written for every extracted
\* message, in order, so at every point the number of acknowledgments written
\* equals the number of messages extracted.
OneAckPerMessage ==
    /\ Len(acks) = Len(extracted)
    /\ \A i \in 1..Len(acks) :
          /\ acks[i].nth = i
          /\ IsFrame(acks[i].frame)

\* C5, amended: one acknowledgment frame is written for every extracted
\* message, in order and before the next extraction or read: the i-th write
\* answers the i-th message, and the two counts agree whenever the server
\* extracts or reads; a peer that keeps its end open and has read nothing has
\* exactly these frames to read.  When the write of an acknowledgment fails
\* the server ends there, with one message extracted and not acknowledged.
OneAckWhileServing ==
    /\ spc # "crashed" => Len(acks) = Len(extracted)
    /\ spc = "crashed" => Len(extracted) - Len(acks) \in {0, 1}
    /\ (spc = "crashed" /\ Len(acks) # Len(extracted)) => serr = "OSError"
    /\ \A i \in 1..Len(acks) :
          /\ acks[i].nth = i
          /\ IsFrame(acks[i].frame)
    /\ (sconn # 0 /\ cside[sconn] = "open")
       => s2c[sconn] = Repeat(build_ack(LoopAckControlId), Len(extracted))

\* two messages extracted from one read and both acknowledged: the peer has
\* two frames to read
OneAckWitness ==
    /\ Len(extracted) = 2
    /\ Len(acks) = 2
    /\ nreads = 1
    /\ spc = "recv"
    /\ cside[sconn] = "open"
    /\ Len(s2c[sconn]) = 2 * Len(build_ack(LoopAckControlId))

\* the fields of the first segment of a text
FirstSegmentFields(t) == Split(Split(t, 13)[1], FIELD_SEP)
\* the text has a header segment with a control id field (MSH-10)
HasMsh10(t) ==
    /\ Len(FirstSegmentFields(t)) >= 10
    /\ FirstSegmentFields(t)[1] = <<77, 83, 72>>
Msh10(t) == FirstSegmentFields(t)[10]
\* the decoded payload of a frame
PayloadText(f) == Utf8Decode(SubSeq(f, 2, Len(f) - 2)).text
\* the third field of the second segment (MSA-2)
Msa2(t) == Split(Split(t, 13)[2], FIELD_SEP)[3]

\* C6: the acknowledgment written for an extracted message carries that
\* message's control id (MSH-10) in its header and in its MSA segment.
AckCarriesControlId ==
    \A i \in 1..Len(acks) :
        (i <= Len(extracted) /\ HasMsh10(extracted[i].msg))
        => /\ Msh10(PayloadText(acks[i].frame)) = Msh10(extracted[i].msg)
           /\ Msa2(PayloadText(acks[i].frame)) = Msh10(extracted[i].msg)

\* C7: build_ack(c) is SB + payload + EB + CR, the payload two segments: an
\* MSH segment of type ACK^A01 with control id c, then exactly MSA|AA|c.
AckConstruction ==
    pfun = "build_ack"
    => /\ IsFrame(pout)
       /\ Utf8Decode(SubSeq(pout, 2, Len(pout) - 2)).ok
       /\ LET segs == Split(PayloadText(pout), 13)
              h == Split(segs[1], FIELD_SEP)
          IN  /\ Len(segs) = 3
              /\ segs[3] = << >>
              /\ Len(h) = 12
              /\ h[1] = <<77, 83, 72>>
              /\ h[9] = <<65, 67, 75, 94, 65, 48, 49>>
              /\ h[10] = parg
              /\ segs[2] = <<77, 83, 65, 124, 65, 65, 124>> \o parg

AckConstructionWitness ==
    /\ pfun = "build_ack"
    /\ parg = <<77, 83, 71, 49, 55, 48, 48, 48, 48, 48, 48, 48, 48, 45, 49>>
    /\ Len(pout) > 3

\* C8: a complete frame whose payload is not valid UTF-8 does not end the
\* server: the message is extracted with the invalid bytes ignored and its
\* acknowledgment is written.
DecodeTolerance ==
    [][(spc = "loop" /\ LoopCond(buffer) /\ ~Utf8Decode(FrameBytes(buffer)).ok)
       => /\ serr' # "UnicodeDecodeError"
          /\ extracted' = Append(extracted,
                [msg |-> Utf8DecodeIgnore(FrameBytes(buffer))])
          /\ Len(acks') = Len(acks) + 1]_vars

\* C9: a client is created Disconnected; after a send() that ended (returned
\* an acknowledgment, returned None or raised, whatever the error) a client
\* without keep-alive is Disconnected; after a send() that returned, a
\* keep-alive client is Connected.
ClientLifecycle ==
    \A c \in Clients :
        /\ (cpc[c] = "idle" /\ outcome[c] = "new") => sock[c] = 0
        /\ (/\ cpc[c] = "idle"
            /\ outcome[c] \in {"ack", "none", "raised", "encode_error"}
            /\ ~keepalive[c])
           => sock[c] = 0
        /\ (cpc[c] = "idle" /\ outcome[c] \in {"ack", "none"} /\ keepalive[c])
           => sock[c] # 0

\* C10: after a send() that raised a transport error the client holds no
\* socket, or holds one the next send() can use: never a dead socket that the
\* next send() would reuse.
CleanStateAfterFailure ==
    \A c \in Clients :
        (cpc[c] = "idle" /\ outcome[c] = "raised")
        => (sock[c] = 0 \/ sside[sock[c]] # "closed")

\* C11: a send() whose acknowledgment read ends with nothing read, on a
\* connection the server has not closed (the read timed out, whether or not
\* an acknowledgment had been written by then), returns None and does not
\* raise; a keep-alive client is left Connected: it keeps its socket, open at
\* its end and not reset, with whatever was written to it still to be read;
\* and its next send(), unless the server has closed the connection by then,
\* opens no connection and writes its frame on that socket, where the server
\* receives it.
AckTimeoutNotAnError ==
    [][\A c \in Clients :
          /\ (/\ cpc[c] = "recv"
              /\ cpc'[c] = "idle"
              /\ s2c'[sock[c]] = s2c[sock[c]]
              /\ sside[sock[c]] # "closed")
             => /\ outcome'[c] = "none"
                /\ ret'[c] = << >>
                /\ returned'[c] = (IF returned[c] = -1 THEN -1 ELSE returned[c] + 1)
                /\ keepalive[c]
                   => /\ sock'[c] = sock[c]
                      /\ cside'[sock[c]] = "open"
                      /\ reset'[sock[c]] = "none"
          /\ (/\ keepalive[c]
              /\ cpc[c] = "idle"
              /\ outcome[c] = "none"
              /\ sock[c] # 0
              /\ sside[sock[c]] # "closed"
              /\ cpc'[c] # "idle")
             => /\ cpc'[c] = "recv"
                /\ sock'[c] = sock[c]
                /\ connects'[c] = connects[c]
                /\ Opened' = Opened
                /\ \E m \in ClientTexts :
                      /\ written'[sock[c]] = Append(written[sock[c]], m)
                      /\ c2s'[sock[c]] = c2s[sock[c]] \o wrap(m)]_vars

\* a keep-alive client whose first send() timed out on the connection the
\* server is serving, and whose next send() has written its frame on the same
\* connection, where the acknowledgment of the first is still to be read
AckTimeoutWitness ==
    \E c \in Clients :
        /\ keepalive[c]
        /\ cpc[c] = "recv"
        /\ outcome[c] = "none"
        /\ returned[c] = 1
        /\ connects[c] = 1
        /\ sock[c] = sconn
        /\ sside[sock[c]] = "open"
        /\ Len(written[sock[c]]) = 2
        /\ Len(acks) = 1
        /\ s2c[sock[c]] # << >>

\* the connections client c has opened for the send() calls that returned: a
\* client without keep-alive that holds a socket between two calls has opened
\* it with connect(), for the send() to come
OpenedForSends(c) == connects[c] - (IF ~keepalive[c] /\ sock[c] # 0 THEN 1 ELSE 0)

\* C12: a connection is created only by a client that holds no socket; over
\* n >= 1 send() calls that returned, with no socket closed by close() in
\* between, a keep-alive client has opened exactly one connection and a client
\* without keep-alive exactly n, one for each; every connection open at the
\* clients' end is the socket held by exactly one client, so no client ever
\* holds more than one open socket.
ConnectionReuse ==
    /\ [][\A c \in Clients :
              (sock'[c] # sock[c] /\ sock'[c] # 0)
              => /\ sock[c] = 0
                 /\ cside[sock'[c]] = "none"]_vars
    /\ [](/\ \A c \in Clients :
              (cpc[c] = "idle" /\ returned[c] >= 1)
              => OpenedForSends(c) = IF keepalive[c] THEN 1 ELSE returned[c]
          /\ \A c, d \in Clients : (sock[c] # 0 /\ sock[c] = sock[d]) => c = d
          /\ {k \in ConnIds : cside[k] = "open"} = {sock[c] : c \in Clients} \ {0})

\* a keep-alive client whose three send() calls returned, the first of them
\* on the connection a connect() before it had opened
ConnectionReuseWitness ==
    \E c \in Clients :
        /\ keepalive[c] /\ cpc[c] = "idle" /\ returned[c] = MaxSends /\ connects[c] = 1
        /\ sock[c] = 1
        /\ Len(written[1]) = MaxSends

\* C13: close() in any state leaves the client Disconnected, its socket closed
\* and released; close() on a Disconnected client changes nothing, so a second
\* close() changes nothing; the call that follows a close(), when it is a
\* send() or a connect() that does anything, either opens a fresh connection
\* or raises before one exists, leaving the client Disconnected and every
\* connection as it was: the socket closed is never used again.
CloseIdempotent ==
    [][\A c \in Clients :
          /\ ClientClose(c)
             => /\ sock'[c] = 0
                /\ sock[c] # 0 => cside'[sock[c]] = "closed"
                /\ sock[c] = 0 => UNCHANGED vars
          /\ (outcome[c] = "closed" /\ cpc[c] = "idle")
             => /\ sock[c] = 0
                /\ \A k \in ConnIds : cside[k] = "closed" => cside'[k] = "closed"
          /\ (/\ outcome[c] = "closed"
              /\ cpc[c] = "idle"
              /\ (cpc'[c] # "idle" \/ outcome'[c] # "closed"))
             => \/ /\ sock'[c] # 0
                   /\ cside[sock'[c]] = "none"
                   /\ cside'[sock'[c]] = "open"
                   /\ cpc'[c] = "write" \/ outcome'[c] = "connected"
                \/ /\ sock'[c] = 0
                   /\ cpc'[c] = "idle"
                   /\ outcome'[c] \in {"raised", "encode_error"}
                   /\ sends' = sends + 1
                   /\ UNCHANGED netVars]_vars

\* a keep-alive client that sent, closed and sent again: the second
\* send() has its acknowledgment read behind it, on a second connection
CloseIdempotentWitness ==
    \E c \in Clients :
        /\ keepalive[c]
        /\ cpc[c] = "idle" /\ outcome[c] = "none"
        /\ sock[c] = 2 /\ cside[2] = "open"
        /\ cside[1] = "closed"
        /\ written[1] # << >> /\ written[2] # << >>

RECURSIVE ParseDec(_)
\* the number a text of decimal digits denotes
ParseDec(t) ==
    IF t = << >> THEN 0
    ELSE 10 * ParseDec(SubSeq(t, 1, Len(t) - 1)) + (t[Len(t)] - 48)

\* the counter component of a control id: the digits after its last "-"
CounterOf(id) == LET parts == Split(id, 45) IN ParseDec(parts[Len(parts)])

\* C14: the counter component of the i-th id a builder returns is i (it
\* starts at 1 and grows by 1), no two ids it returns are equal, and a header
\* just built carries the id returned last: building it took exactly one id.
ControlIdMonotonic ==
    /\ \A i \in 1..Len(ids) : CounterOf(ids[i]) = i
    /\ \A i, j \in 1..Len(ids) : i # j => ids[i] # ids[j]
    /\ bld.ctrl_id = Len(ids) + 1
    /\ pfun \in {"msh", "build_message"}
       => /\ Len(ids) >= 1
          /\ Msh10(pout) = ids[Len(ids)]
          /\ \A i \in 1..(Len(ids) - 1) : Msh10(pout) # ids[i]

ControlIdWitness ==
    /\ Len(ids) = MaxIds
    /\ clk >= 1
    /\ pfun = "build_message"
    /\ CounterOf(ids[Len(ids)]) = MaxIds

\* the text OBX|1|NM|8867-4^Heart rate^LN||82|/min^^UCUM||||||F||20250101120000
\* followed by a carriage return
ExpectedObx ==
       <<79, 66, 88, 124, 49, 124, 78, 77, 124, 56, 56, 54, 55, 45, 52, 94,
       72, 101, 97, 114, 116, 32, 114, 97, 116, 101, 94, 76, 78, 124, 124,
       56, 50, 124, 47, 109, 105, 110, 94, 94, 85, 67, 85, 77, 124, 124, 124,
       124, 124, 124, 70, 124, 124, 50, 48, 50, 53, 48, 49, 48, 49, 49, 50,
       48, 48, 48, 48, 13>>

\* C15: obx_numeric(1, "8867-4", "Heart rate", "LN", 82, "/min", "", "UCUM",
\* "20250101120000", "") returns exactly ExpectedObx; in every OBX segment
\* the result status F is the sixth field after the units field and the
\* observation time the second field after F.
PositionalIntegrity ==
    pfun = "obx_numeric"
    => /\ (parg.set_id = 1 /\ parg.observation_time = SampleTime)
          => pout = ExpectedObx
       /\ LET f == Split(pout, FIELD_SEP)
          IN  /\ Len(f) >= 15
              /\ f[13] = <<70>>
              /\ f[15] = OrElse(parg.observation_time, ts(clk)) \o <<13>>

\* the OBX segments of a message, each as the sequence of its fields
ObxFields(msg) ==
    LET segs == Split(msg, 13)
        idx == {i \in 1..Len(segs) : Split(segs[i], FIELD_SEP)[1] = <<79, 66, 88>>}
    IN  {Split(segs[i], FIELD_SEP) : i \in idx}

\* the set ids (OBX-1) of the segments of msg that carry metric m (in OBX-3)
SetIdsFor(msg, m) ==
    {f[2] : f \in {g \in ObxFields(msg) :
                      g[4] = comp(<<m.code, m.text, m.coding_system>>)}}

\* the metrics a value map has no value for
Missing(vitals) == {i \in 1..Len(IcuMetrics) : IcuMetrics[i].key \notin DOMAIN vitals}

\* C16: built from a value map that lacks exactly one metric, the message has
\* no OBX segment for that metric and one for every other metric, with the
\* set id that metric has in the message built from the complete map.
PanelSkipKeepsSetIds ==
    (pfun = "build" /\ Cardinality(Missing(parg)) = 1)
    => LET full == build(NewBuilder, SamplePatientId, SamplePatientName,
                         SampleDeviceId, SampleValues, clk, clk, SampleUuid)
       IN  /\ Cardinality(ObxFields(pout)) = Len(IcuMetrics) - 1
           /\ \A i \in 1..Len(IcuMetrics) :
                 IF i \in Missing(parg)
                 THEN SetIdsFor(pout, IcuMetrics[i]) = {}
                 ELSE /\ Cardinality(SetIdsFor(pout, IcuMetrics[i])) = 1
                      /\ SetIdsFor(pout, IcuMetrics[i]) = SetIdsFor(full, IcuMetrics[i])

\* C17: when the peer has closed and every byte it wrote has been received
\* (so conn.recv returns b""), the server's next step ends the receive loop
\* normally: no exception, nothing extracted from the bytes left in the
\* buffer and no acknowledgment written for them.
ServerLoopTermination ==
    [][(/\ spc = "recv"
        /\ c2s[sconn] = << >>
        /\ cside[sconn] = "closed"
        /\ ~Aborted(sconn)
        /\ spc' # spc)
       => /\ spc' = "done"
          /\ serr' = "none"
          /\ extracted' = extracted
          /\ acks' = acks
          /\ s2c' = s2c
          /\ ~listening']_vars

ServerLoopTerminationWitness ==
    /\ spc = "done"
    /\ serr = "none"
    /\ buffer = <<SB, 65>>
    /\ extracted = << >>
    /\ acks = << >>

\* C18: the server accepts one connection in its lifetime: conn never changes
\* once set; bytes are read from and acknowledgments written to that
\* connection only; once the server has ended it does nothing more, listens
\* no longer and holds no connection.
SingleConnection ==
    [][/\ sconn # 0 => sconn' = sconn
       /\ \A k \in ConnIds :
             k # sconn'
             => /\ s2c'[k] = << >>
                /\ Len(c2s'[k]) >= Len(c2s[k])
                /\ sside'[k] # "open"
       /\ spc \in {"done", "crashed"}
          => /\ UNCHANGED serverVars
             /\ ~listening
             /\ backlog = << >>
             /\ \A k \in ConnIds : sside[k] \in {"none", "closed"}]_vars

\* two clients have connected and written; the server has served the
\* connection of the first, which has had its acknowledgment, and has ended;
\* the frame of the second, which still holds its socket, was never read
SingleConnectionWitness ==
    \E c, d \in Clients :
        /\ c # d
        /\ spc \in {"done", "crashed"}
        /\ sconn = 1
        /\ Len(extracted) >= 1
        /\ Len(acks) >= 1
        /\ sock[c] = 0 /\ outcome[c] = "ack" /\ connects[c] = 1
        /\ sock[d] = 2 /\ connects[d] = 1
        /\ written[1] # << >>
        /\ written[2] # << >>
        /\ c2s[2] = WrapAll(written[2])
        /\ s2c[2] = << >>
        /\ sside[2] = "closed"

\* C19: the message build_message returns is, segment by segment: the MSH
\* header, the PID segment of the given patient, the OBR segment of the given
\* device, then the given observation segments in the order given, and
\* nothing else.
AssemblyOrder ==
    pfun = "build_message"
    => LET segs == Split(pout, 13)
           given == ObxSegments(parg.obx_segments)
       IN  /\ Len(segs) = 3 + Len(given) + 1
           /\ segs[Len(segs)] = << >>
           /\ IsPrefix(<<77, 83, 72, 124>> (* "MSH|" *), segs[1])
           /\ IsPrefix(<<80, 73, 68, 124>> (* "PID|" *), segs[2])
           /\ Split(segs[2], FIELD_SEP)[6] = SamplePatientName
           /\ IsPrefix(<<79, 66, 82, 124>> (* "OBR|" *), segs[3])
           /\ Split(segs[3], FIELD_SEP)[4] = SampleDeviceId \o <<94, 68, 69, 86, 73, 67, 69>> (* "^DEVICE" *)
           /\ \A i \in 1..Len(given) : segs[3 + i] \o <<13>> = given[i]

AssemblyOrderWitness ==
    /\ pfun = "build_message"
    /\ Len(parg.obx_segments) = MaxObx
    /\ parg.obx_segments[1].seg # parg.obx_segments[2].seg
    /\ Len(ids) > 1

\* the time a message carries in its header (MSH-7)
HeaderTime(msg) == Split(Split(msg, 13)[1], FIELD_SEP)[7]
\* the time it carries in its order segment (the 14th field of OBR)
OrderTime(msg) == Split(Split(msg, 13)[3], FIELD_SEP)[15]
\* the time an observation segment carries (its last field)
ObservationTime(obx) ==
    LET f == Split(Split(obx, 13)[1], FIELD_SEP) IN f[Len(f)]

\* C20: in a message build_message returns, the header time, the order time
\* and the time of every given observation segment that was built without
\* an observation time are equal.
TimeConsistency ==
    pfun = "build_message"
    => /\ OrderTime(pout) = HeaderTime(pout)
       /\ \A i \in 1..Len(parg.obx_segments) :
             parg.obx_segments[i].given = None
             => ObservationTime(parg.obx_segments[i].seg) = HeaderTime(pout)

\* "VITALS^Vital Signs Panel^L^76499-3^Vital signs^LN"
PanelComposite ==
    <<86, 73, 84, 65, 76, 83, 94, 86, 105, 116, 97, 108, 32, 83, 105, 103, 110,
      115, 32, 80, 97, 110, 101, 108, 94, 76, 94, 55, 54, 52, 57, 57, 45, 51,
      94, 86, 105, 116, 97, 108, 32, 115, 105, 103, 110, 115, 94, 76, 78>>

\* n field separators
Seps(n) == [i \in 1..n |-> FIELD_SEP]

\* OBR|1|<uuid>^ICU_SIM|<deviceId>^DEVICE|<panel composite>, ten separators,
\* the time, five separators, F, carriage return
ExpectedObr(uuid, device_id, message_time) ==
    <<79, 66, 82, 124, 49, 124>> (* "OBR|1|" *)
    \o uuid \o <<94, 73, 67, 85, 95, 83, 73, 77, 124>> (* "^ICU_SIM|" *)
    \o device_id \o <<94, 68, 69, 86, 73, 67, 69, 124>> (* "^DEVICE|" *)
    \o PanelComposite \o Seps(10) \o message_time \o Seps(5) \o <<70, 13>> (* "F\r" *)

\* C21: for every message time and device id, obr returns
\* OBR|1|<uuid>^ICU_SIM|<deviceId>^DEVICE|<panel composite>, then ten field
\* separators, the message time, then five field separators, then F and a
\* carriage return.
OrderSegmentLayout ==
    pfun = "obr" => pout = ExpectedObr(parg.uuid, parg.device_id, parg.message_time)

\* the number of frames written so far, over all connections
RECURSIVE FramesWritten(_, _)
FramesWritten(w, k) == IF k = 0 THEN 0 ELSE Len(w[k]) + FramesWritten(w, k - 1)

\* C22: when connecting or writing fails during send(), the send() ends there
\* with the error: no connection is created, no frame written and no
\* acknowledgment read, and nothing is returned.  Every send() creates at most
\* one connection and writes its frame at most once; a send() that goes on to
\* the acknowledgment read has written its frame exactly once, on the socket
\* it holds.
NoInternalRetry ==
    [][/\ Cardinality({k \in ConnIds : cside'[k] # "none"}) <= Opened + 1
       /\ FramesWritten(written', MaxConns) <= FramesWritten(written, MaxConns) + 1
       /\ \A c \in Clients :
             /\ (SendConnectFails(c) \/ SendWriteFails(c))
                => /\ outcome'[c] = "raised"
                   /\ ret'[c] = << >>
                   /\ cpc'[c] = "idle"
             /\ (cpc[c] = "write" /\ cpc'[c] = "idle")
                => /\ outcome'[c] = "raised"
                   /\ written' = written
                   /\ c2s' = c2s
                   /\ s2c' = s2c
             /\ (cpc[c] # "recv" /\ cpc'[c] = "recv")
                => /\ sock[c] # 0
                   /\ sock'[c] = sock[c]
                   /\ Len(written'[sock[c]]) = Len(written[sock[c]]) + 1
             /\ cpc[c] # "idle"
                => /\ sock'[c] \in {sock[c], 0}
                   /\ cpc[c] = "recv" => written'[sock[c]] = written[sock[c]]
       /\ (sends' = sends + 1 /\ cpc' = cpc)
          => /\ \E c \in Clients :
                   cpc[c] = "idle" /\ outcome'[c] \in {"raised", "encode_error"}
             /\ written' = written
             /\ c2s' = c2s
             /\ s2c' = s2c
             /\ Cardinality({k \in ConnIds : cside'[k] # "none"}) = Opened]_vars

\* a send() has failed in connect() while the server listens: no connection
\* was created for it and no frame written; the one connection and the one
\* frame are those of the other client, which waits for its acknowledgment
NoInternalRetryWitness ==
    \E c, d \in Clients :
        /\ c # d
        /\ listening
        /\ sends = 2
        /\ Opened = 1
        /\ FramesWritten(written, MaxConns) = 1
        /\ cpc[c] = "idle" /\ outcome[c] = "raised" /\ sock[c] = 0 /\ connects[c] = 0
        /\ cpc[d] = "recv" /\ sock[d] = 1

\* q is p with bytes removed at its front
IsSuffix(q, p) == Len(q) <= Len(p) /\ q = SubSeq(p, Len(p) - Len(q) + 1, Len(p))

\* the accepted connection's stream is the frames of one or more messages,
\* none containing 0x0B or 0x1C
WellFormedFrames ==
    /\ sconn # 0
    /\ Sent # << >>
    /\ \A i \in 1..Len(Sent) : Clean(Sent[i])

\* C23: the receive buffer is only ever appended to at its end or cut at its
\* front; each extraction cuts exactly the bytes up to and including the
\* extracted frame's EB and the CR that follows it; so once every byte of a
\* sequence of well-formed frames has been read, however the stream was split
\* into reads, the buffer is empty.
BufferAdvance ==
    /\ [][/\ sconn # 0 => (IsPrefix(buffer, buffer') \/ IsSuffix(buffer', buffer))
          /\ (WellFormedFrames /\ Len(extracted') = Len(extracted) + 1)
             => LET cut == Len(buffer) - Len(buffer')
                IN  /\ IsSuffix(buffer', buffer)
                    /\ cut = FrameEnd(buffer) + 2
                    /\ buffer[cut - 1] = EB
                    /\ buffer[cut] = CR]_vars
    /\ []((WellFormedFrames /\ c2s[sconn] = << >> /\ spc \in {"recv", "done"})
          => buffer = << >>)

\* C24 as stated: the frames of messages m1..mn, none containing 0x0B or
\* 0x1C, are concatenated and delivered under any split into non-empty reads:
\* once every byte has been read and the server is through with them, it has
\* extracted exactly m1..mn, in order and each once, and has written exactly
\* n acknowledgments.
StreamFidelity ==
    WellFormedFrames
    => /\ IsPrefix(Msgs, Sent)
       /\ (c2s[sconn] = << >> /\ spc # "loop")
          => (Msgs = Sent /\ Len(acks) = Len(Sent))

\* C24, amended: what the server has extracted is always the first of
\* m1..mn, in order and each once, with one acknowledgment written for each
\* but, when the write of it has failed and ended the server, the last; once
\* every byte has been read and the loop has run, no write having failed, it
\* has extracted exactly m1..mn and written exactly n acknowledgments.
StreamFidelityUnlessWriteFails ==
    WellFormedFrames
    => /\ IsPrefix(Msgs, Sent)
       /\ spc # "crashed" => Len(acks) = Len(Msgs)
       /\ spc = "crashed" => (serr = "OSError" /\ Len(acks) = Len(Msgs) - 1)
       /\ (c2s[sconn] = << >> /\ spc \in {"recv", "done"})
          => (Msgs = Sent /\ Len(acks) = Len(Sent))

\* messages delivered in three or more reads with the CR of the last frame
\* read after that frame was extracted
StreamFidelityWitness ==
    /\ Len(Sent) = MaxFrames
    /\ \A i \in 1..Len(Sent) : Clean(Sent[i])
    /\ Sent[1] # Sent[Len(Sent)]
    /\ nreads = 3
    /\ c2s[sconn] = << >>
    /\ spc = "done"
    /\ serr = "none"
    /\ buffer = <<CR>>
    /\ Msgs = Sent
    /\ Len(acks) = MaxFrames

\* the acknowledgment frames written on connection k and not yet read
PendingAcks(k) == Len(s2c[k]) \div Len(build_ack(LoopAckControlId))

\* the positions, among the messages written on connection k, of the messages
\* those frames were written for: the server answers the messages of its one
\* connection in order, so they are the last PendingAcks(k) it has answered
AnsweredBy(k) == (Len(acks) - PendingAcks(k) + 1)..Len(acks)

\* C25: on a keep-alive connection the value send(mk) returns is None or the
\* acknowledgment the server wrote for mk: when the acknowledgment read of
\* send(mk) returns bytes, they are the one frame written for the k-th message
\* of the connection, never a frame written for an earlier message whose read
\* timed out.
AckAttribution ==
    [][\A c \in Clients :
          (keepalive[c] /\ SendRecvAck(c))
          => /\ AnsweredBy(sock[c]) = {Len(written[sock[c]])}
             /\ ret'[c] = Utf8Decode(build_ack(LoopAckControlId)).text]_vars

====
